---- MODULE Spec2Model ----
(***************************************************************************)
(* Model of main.py, the Braintrust data downloader: paged listing of the  *)
(* objects of an endpoint kind, cursor-paged fetching of the events of     *)
(* each object, normalisation of the events, the CSV table written per     *)
(* object, and the orchestration of the two endpoint-kind runs by main.    *)
(*                                                                         *)
(* The remote API and the filesystem are the environment: every request    *)
(* and every write is one step whose outcome is chosen nondeterministically*)
(* among the outcomes the call can have.                                   *)
(***************************************************************************)
EXTENDS Integers, Sequences, FiniteSets, TLC

(***************************************************************************)
(* Bounds of the model.                                                    *)
(***************************************************************************)
\* `limit` of fetch_object_list (10 in the source), scaled down.
ListLimit == 2
\* `limit` of fetch_events (100 in the source), scaled down.
FetchLimit == 1
\* Most objects the API holds for the endpoint of a direct listing call.
MaxObjects == 4
\* Most objects the API holds, over both endpoint kinds, in a run of main.
MaxRunObjects == 2
\* Most events the API holds for one object.
MaxEvents == 2
\* Most responses the API gives to the fetch of one object.
MaxFetchPages == 3
\* Deepest nesting of the values of an event given to normalize_event.
MaxDepth == 2
\* Most direct calls of normalize_event on the same event.
MaxCalls == 2
\* Most events in a batch given directly to write_to_csv.
MaxBatch == 2

(***************************************************************************)
(* JSON values: None, numbers, strings, mappings (key/value pairs in       *)
(* insertion order) and sequences.                                         *)
(***************************************************************************)
Null == [t |-> "null"]
Num(n) == [t |-> "num", n |-> n]
Str(s) == [t |-> "str", s |-> s]
Dict(kv) == [t |-> "dict", kv |-> kv]
List(xs) == [t |-> "list", xs |-> xs]

\* isinstance(value, dict)
IsDict(v) == v.t = "dict"
\* isinstance(value, (dict, list))
IsNested(v) == v.t \in {"dict", "list"}
\* A scalar or a string: what a CSV cell can hold.
IsScalar(v) == v.t \in {"null", "num", "str"}

\* Python's truth test of a value that is None or a string (`if cursor:`,
\* `if starting_after:`, `if project_id:`): false for None and for "".
Truthy(c) == c.t = "str" /\ c.s # ""

\* input_data.get(key) on a nested mapping: the value of the key, else None.
RECURSIVE PairsGet(_, _)
PairsGet(kv, key) ==
    IF kv = <<>> THEN Null
    ELSE IF Head(kv)[1] = key THEN Head(kv)[2]
    ELSE PairsGet(Tail(kv), key)

\* event.get(key) on an event: the value of the key, else None.
EventGet(event, key) == IF key \in DOMAIN event THEN event[key] ELSE Null

\* json.dumps(value): the text with Python's default separators.
RECURSIVE json_dumps(_)
RECURSIVE DumpItems(_)
RECURSIVE DumpPairs(_)
DumpItems(xs) ==
    IF xs = <<>> THEN ""
    ELSE json_dumps(Head(xs))
         \o (IF Tail(xs) = <<>> THEN "" ELSE ", " \o DumpItems(Tail(xs)))
DumpPairs(kv) ==
    IF kv = <<>> THEN ""
    ELSE "\"" \o Head(kv)[1] \o "\": " \o json_dumps(Head(kv)[2])
         \o (IF Tail(kv) = <<>> THEN "" ELSE ", " \o DumpPairs(Tail(kv)))
json_dumps(v) ==
    CASE v.t = "null" -> "null"
      [] v.t = "num" -> ToString(v.n)
      [] v.t = "str" -> "\"" \o v.s \o "\""
      [] v.t = "dict" -> "{" \o DumpPairs(v.kv) \o "}"
      [] v.t = "list" -> "[" \o DumpItems(v.xs) \o "]"

(***************************************************************************)
(* normalize_event                                                         *)
(***************************************************************************)
PromotedKeys == {"input", "output", "expected", "metadata"}

\* Lines 135-140: when event["input"] is a mapping it is popped and the four
\* keys are set from it, None for each it lacks.
PromoteNoNull(event) ==
    IF IsDict(EventGet(event, "input"))
    THEN LET input_data == event["input"]
             have == {k \in PromotedKeys : PairsGet(input_data.kv, k) # Null}
         IN [k \in ((DOMAIN event) \ {"input"}) \cup have |->
                IF k \in have THEN PairsGet(input_data.kv, k) ELSE event[k]]
    ELSE event
PromoteKeepTop(event) ==
    IF IsDict(EventGet(event, "input"))
    THEN LET input_data == event["input"]
         IN [k \in (DOMAIN event) \cup PromotedKeys |->
                IF k \in DOMAIN event /\ k # "input" THEN event[k]
                ELSE PairsGet(input_data.kv, k)]
    ELSE event
PromoteAlways(event) ==
    IF IsDict(EventGet(event, "input"))
    THEN LET input_data == event["input"]
         IN [k \in (DOMAIN event) \cup PromotedKeys |->
                IF k \in PromotedKeys THEN PairsGet(input_data.kv, k)
                ELSE event[k]]
    ELSE [k \in (DOMAIN event) \cup PromotedKeys |-> EventGet(event, k)]
Promote(event) ==
    IF IsDict(EventGet(event, "input"))
    THEN LET input_data == event["input"]
         IN [k \in (DOMAIN event) \cup PromotedKeys |->
                IF k \in PromotedKeys THEN PairsGet(input_data.kv, k)
                ELSE event[k]]
    ELSE event

\* Lines 142-144: every mapping or sequence value becomes its JSON text.
SerializeDictsOnly(event) ==
    [k \in DOMAIN event |->
        IF IsDict(event[k]) THEN Str(json_dumps(event[k])) ELSE event[k]]
SerializeExceptInput(event) ==
    [k \in DOMAIN event |->
        IF IsNested(event[k]) /\ k # "input" THEN Str(json_dumps(event[k]))
        ELSE event[k]]
Serialize(event) ==
    [k \in DOMAIN event |->
        IF IsNested(event[k]) THEN Str(json_dumps(event[k])) ELSE event[k]]

\* The value normalize_event returns, which is also what the event passed to
\* it holds afterwards: the function works on the dict it is given.
normalize_event(event) == Serialize(Promote(event))

(***************************************************************************)
(* write_to_csv: the table of a batch of events                            *)
(***************************************************************************)
\* The field names of the model in the order Python's sorted() gives strings.
FieldOrder == <<"expected", "id", "input", "metadata", "output", "tags">>

\* sorted(fieldnames), line 184.
SortedDescending(fieldnames) ==
    LET n == Len(FieldOrder)
    IN SelectSeq([i \in 1..n |-> FieldOrder[n + 1 - i]], LAMBDA k : k \in fieldnames)
sorted(fieldnames) == SelectSeq(FieldOrder, LAMBDA k : k \in fieldnames)

\* Lines 179-181: the union of the keys of the normalized events.
FirstKeysOnly(normalized_events) ==
    IF normalized_events = <<>> THEN {} ELSE DOMAIN normalized_events[1]
FieldNames(normalized_events) ==
    UNION {DOMAIN normalized_events[i] : i \in 1..Len(normalized_events)}

\* What csv.DictWriter writes for a value: None as the empty cell, a string
\* as itself, any other value as its str() (for a raw mapping or sequence the
\* Python repr, which is not its JSON text).
CsvCell(v) ==
    CASE v.t = "null" -> ""
      [] v.t = "num" -> ToString(v.n)
      [] v.t = "str" -> v.s
      [] OTHER -> "repr(" \o json_dumps(v) \o ")"

\* One row of DictWriter.writerows: the cell of each header column, empty
\* (restval) for a column the record lacks.
CsvRow(record, header) ==
    [i \in 1..Len(header) |->
        IF header[i] \in DOMAIN record THEN CsvCell(record[header[i]]) ELSE ""]

\* Line 178: normalize_event applied to each event of the list, in order.
NormalizeFirstOnly(events) ==
    [i \in 1..Len(events) |->
        IF i = 1 THEN normalize_event(events[i]) ELSE events[i]]
NormalizeAll(events) == [i \in 1..Len(events) |-> normalize_event(events[i])]

\* Lines 183-186: the file written for a list of normalized events.
CsvTable(normalized_events) ==
    LET header == sorted(FieldNames(normalized_events))
    IN [complete |-> TRUE,
        header |-> header,
        rows |-> [i \in 1..Len(normalized_events) |->
                     CsvRow(normalized_events[i], header)]]

\* A file opened for writing whose rows were not all written.
PartialFile == [complete |-> FALSE, header |-> <<>>, rows |-> <<>>]
\* A file left at the same path by an earlier run.
OldFile == [complete |-> TRUE, header |-> <<"id">>, rows |-> << <<"0">> >>]

\* f"braintrust_data/{directory}/{object_id}.csv", line 177.
CsvPath(directory, object_id) == <<directory, object_id>>
RootDir == "braintrust_data"

(***************************************************************************)
(* The remote API                                                          *)
(***************************************************************************)
Endpoints == {"experiment", "dataset"}

\* What the environment holds in store for an object of a run: its events are
\* fetched and its table written ("ok"), it has no events ("empty"), a fetch
\* request for it fails ("fetch_fail"), or the write of its table fails
\* ("write_fail").
Fates == {"ok", "empty", "fetch_fail", "write_fail"}

\* The k-th event of an object's stream. Odd events hold a nested `input`.
Event(k) ==
    IF k % 2 = 1
    THEN [id |-> Num(k),
          input |-> Dict(<< <<"input", Str("q")>>,
                            <<"expected", List(<<Num(k)>>)>> >>),
          tags |-> List(<<Str("t")>>)]
    ELSE [id |-> Num(k), input |-> Str("q"), output |-> Str("a")]

\* Events from+1 .. from+j of the stream.
EventPage(from, j) == [i \in 1..j |-> Event(from + i)]

\* The id of the n-th object of a collection: a string, increasing with n.
IdOf(n) == Str(ToString(n))
\* The place of an id in the collection; 0 for no id.
PosOf(id) == IF id = Null THEN 0 ELSE CHOOSE n \in 1..(MaxObjects + MaxRunObjects) : IdOf(n) = id

\* Objects after+1 .. after+j of the collection, ids increasing.
ObjectPage(after, j) == [i \in 1..j |-> [id |-> IdOf(after + i)]]

\* The cursors the n-th response to a fetch can carry: none, the empty
\* string, or the token of the place in the stream it ends at.
Cursors(n) == {Null, Str(""), Str("c" \o ToString(n))}

RECURSIVE Concat(_)
Concat(seqs) == IF seqs = <<>> THEN <<>> ELSE Head(seqs) \o Concat(Tail(seqs))

Min(a, b) == IF a < b THEN a ELSE b

(***************************************************************************)
(* State                                                                   *)
(***************************************************************************)
VARIABLES
    caller,       \* the function the run entered: "main", or a function called directly
    pc,           \* where the run is
    credential,   \* whether BRAINTRUST_API_KEY is set
    project,      \* the project filter given: project_id or project_name
    store,        \* the API's collection per endpoint kind: the fate of each object
    given,        \* `limit` and `starting_after` as the caller of fetch_object_list gave them
    endpoint,     \* `endpoint` of the download_data call in progress
    params,       \* fetch_object_list: the query parameters of the next request
    all_objects,  \* fetch_object_list: the objects received so far
    objects_list, \* download_data: the listed objects
    idx,          \* download_data: position of the for loop in objects_list
    failed_endpoints,
    failed_objects,
    objects_without_events,
    object_events, \* download_data: the event dicts of the current object
    fetched,      \* fetch_events: the events received so far (its `object_events`)
    cursor,       \* fetch_events: the cursor of the last response
    dirs,         \* filesystem: the directories that exist
    files,        \* filesystem: the file at each path that exists
    log,          \* the messages logged, each with the line that logs it
    exit_code,    \* the exit code of the process, Null while it runs
    ret,          \* the value returned by a function called directly
    calls,        \* direct calls of normalize_event made
    listReqs,     \* history: the parameters of each list request of this listing
    listPages,    \* history: the page each of them returned
    fetchReqs,    \* history: the parameters of each fetch request for this object
    responses,    \* history: the response to each of them
    made,         \* history: whether a list request, a fetch request, a write was made per endpoint kind
    runs          \* history: what each finished download_data run ended with

envVars == <<caller, credential, project, store, given>>
listVars == <<params, all_objects, listReqs, listPages>>
runVars == <<endpoint, objects_list, idx, failed_endpoints, failed_objects,
             objects_without_events>>
fetchVars == <<fetched, cursor, fetchReqs, responses>>
fsVars == <<dirs, files>>
vars == <<envVars, pc, listVars, runVars, fetchVars, fsVars, object_events,
          log, exit_code, ret, calls, made, runs>>

\* A log record: the line of main.py that emits it and what it interpolates.
Msg(line) == [line |-> line]
MsgE(line, ep) == [line |-> line, endpoint |-> ep]
MsgO(line, ep, id) == [line |-> line, endpoint |-> ep, id |-> id]
MsgN(line, n) == [line |-> line, n |-> n]
MsgIds(line, ids) == [line |-> line, ids |-> ids]
MsgEndpoints(line, eps) == [line |-> line, endpoints |-> eps]

NothingMade == [e \in Endpoints |-> [list |-> FALSE, fetch |-> FALSE, write |-> FALSE]]
Made(kind) == [made EXCEPT ![endpoint][kind] = TRUE]

\* Lines 33-46: the parameters of the first list request.
FirstParamsNoFilter(limit, starting_after, project_id, project_name) ==
    ("limit" :> limit)
    @@ (IF Truthy(starting_after) THEN ("starting_after" :> starting_after) ELSE <<>>)
FirstParams(limit, starting_after, project_id, project_name) ==
    ("limit" :> limit)
    @@ (IF Truthy(starting_after) THEN ("starting_after" :> starting_after) ELSE <<>>)
    @@ (IF Truthy(project_id) THEN ("project_id" :> project_id) ELSE <<>>)
    @@ (IF Truthy(project_name) THEN ("project_name" :> project_name) ELSE <<>>)

\* Line 64: params["starting_after"] = items[-1]["id"].
SetStartingAfter(p, id) ==
    [k \in (DOMAIN p) \cup {"starting_after"} |->
        IF k = "starting_after" THEN id ELSE p[k]]

\* Lines 96-98: the parameters of a fetch request.
FetchParamsStale(limit, c) ==
    ("limit" :> limit)
    @@ (IF responses # <<>> /\ Truthy(responses[1].cursor)
        THEN ("cursor" :> responses[1].cursor) ELSE <<>>)
FetchParams(limit, c) ==
    ("limit" :> limit) @@ (IF Truthy(c) THEN ("cursor" :> c) ELSE <<>>)

(***************************************************************************)
(* fetch_object_list, lines 48-72: one step per list request               *)
(***************************************************************************)
\* Line 61: the page is the last one.
ListDoneOnEmpty(items, limit) == Len(items) = 0
ListDoneAtFullPage(items, limit) == Len(items) <= limit
ListDone(items, limit) == Len(items) < limit

ListFailsSwallowed ==
    /\ listReqs' = Append(listReqs, params)
    /\ made' = Made("list")
    /\ log' = Append(log, MsgE(66, endpoint))
    /\ IF caller = "main"
       THEN /\ objects_list' = all_objects
            /\ idx' = 1
            /\ pc' = "loop"
            /\ ret' = ret
       ELSE /\ ret' = all_objects
            /\ pc' = "returned"
            /\ UNCHANGED <<objects_list, idx>>
    /\ UNCHANGED <<envVars, params, all_objects, listPages, endpoint,
                   failed_endpoints, failed_objects, objects_without_events,
                   fetchVars, fsVars, object_events, exit_code, calls, runs>>
\* The request fails (lines 65-67). Called from download_data the exception
\* passes through its handler (lines 240-243) and that of main (281-283).
ListFails ==
    /\ listReqs' = Append(listReqs, params)
    /\ made' = Made("list")
    /\ IF caller = "main"
       THEN /\ log' = log \o <<MsgE(66, endpoint), MsgE(241, endpoint),
                               [line |-> 242, endpoint |-> endpoint,
                                ids |-> failed_objects],
                               Msg(282)>>
            /\ exit_code' = <<1>>
            /\ pc' = "exit"
       ELSE /\ log' = Append(log, MsgE(66, endpoint))
            /\ pc' = "raised"
            /\ UNCHANGED exit_code
    /\ UNCHANGED <<envVars, params, all_objects, listPages, runVars, fetchVars,
                   fsVars, object_events, ret, calls, runs>>

\* The request returns a page (lines 57-64, 72).
ListResponds(items) ==
    /\ listReqs' = Append(listReqs, params)
    /\ listPages' = Append(listPages, items)
    /\ made' = Made("list")
    /\ all_objects' = all_objects \o items
    /\ IF ListDone(items, params["limit"])
       THEN /\ params' = params
            /\ IF caller = "main"
               THEN /\ objects_list' = all_objects'
                    /\ idx' = 1
                    /\ pc' = "loop"
                    /\ ret' = ret
               ELSE /\ ret' = all_objects'
                    /\ pc' = "returned"
                    /\ UNCHANGED <<objects_list, idx>>
       ELSE /\ params' = SetStartingAfter(params, items[Len(items)].id)
            /\ pc' = "list"
            /\ UNCHANGED <<objects_list, idx, ret>>
    /\ UNCHANGED <<envVars, endpoint, failed_endpoints, failed_objects,
                   objects_without_events, fetchVars, fsVars, object_events,
                   log, exit_code, calls, runs>>

\* The API answers with the next objects after `starting_after`, at most
\* `limit` of them, possibly fewer than it holds.
ListRequest ==
    /\ pc = "list"
    /\ LET after == IF "starting_after" \in DOMAIN params
                    THEN PosOf(params["starting_after"]) ELSE 0
           left == Len(store[endpoint]) - after
       IN \/ ListFails
          \/ \E j \in 0..Min(params["limit"], left) : ListResponds(ObjectPage(after, j))

\* No request fails and the API answers each with all it has next: the
\* min(limit, remaining) objects after `starting_after`.
ListRequestFull ==
    /\ pc = "list"
    /\ LET after == IF "starting_after" \in DOMAIN params
                    THEN PosOf(params["starting_after"]) ELSE 0
           left == Len(store[endpoint]) - after
       IN ListResponds(ObjectPage(after, Min(params["limit"], left)))

(***************************************************************************)
(* download_data, lines 216-245, and main, lines 267-283                   *)
(***************************************************************************)
\* Lines 217-220 and 33-48: the run of an endpoint kind begins; its first
\* list request is next.
EnterDownload(ep) ==
    /\ endpoint' = ep
    /\ failed_endpoints' = <<>>
    /\ failed_objects' = <<>>
    /\ objects_without_events' = <<>>
    /\ objects_list' = <<>>
    /\ idx' = 0
    /\ params' = FirstParams(ListLimit, Null, project.project_id, project.project_name)
    /\ all_objects' = <<>>
    /\ listReqs' = <<>>
    /\ listPages' = <<>>
    /\ pc' = "list"

\* Lines 267-278: the credential is checked and the "experiment" run begins.
MainWithoutCredentialCheck ==
    /\ pc = "main"
    /\ EnterDownload("experiment")
    /\ UNCHANGED <<log, exit_code>>
    /\ UNCHANGED <<envVars, fetchVars, fsVars, object_events, ret, calls, made, runs>>
Main ==
    /\ pc = "main"
    /\ IF ~credential
       THEN /\ log' = Append(log, Msg(270))
            /\ exit_code' = <<1>>
            /\ pc' = "exit"
            /\ UNCHANGED <<listVars, runVars>>
       ELSE /\ EnterDownload("experiment")
            /\ UNCHANGED <<log, exit_code>>
    /\ UNCHANGED <<envVars, fetchVars, fsVars, object_events, ret, calls, made, runs>>

\* The object the for loop of line 221 is at, and what the API holds for it.
Obj == objects_list[idx]
Fate == store[endpoint][PosOf(Obj.id)]

\* Line 221: the loop takes the next object and calls fetch_events for it
\* (lines 92-93), or is over. The history of the last fetch ends here.
NextObjectKeepsCursor ==
    /\ pc = "loop"
    /\ pc' = IF idx <= Len(objects_list) THEN "fetch" ELSE "summary"
    /\ fetched' = <<>>
    /\ cursor' = cursor
    /\ fetchReqs' = <<>>
    /\ responses' = <<>>
    /\ UNCHANGED <<envVars, listVars, runVars, fsVars, object_events, log,
                   exit_code, ret, calls, made, runs>>
NextObject ==
    /\ pc = "loop"
    /\ pc' = IF idx <= Len(objects_list) THEN "fetch" ELSE "summary"
    /\ fetched' = <<>>
    /\ cursor' = Null
    /\ fetchReqs' = <<>>
    /\ responses' = <<>>
    /\ UNCHANGED <<envVars, listVars, runVars, fsVars, object_events, log,
                   exit_code, ret, calls, made, runs>>

\* Lines 228-232: the handler of a failure of the current object.
ObjectFailedBreak(msgs) ==
    /\ log' = log \o msgs \o <<MsgO(229, endpoint, Obj.id)>>
    /\ failed_endpoints' = Append(failed_endpoints, endpoint)
    /\ failed_objects' = Append(failed_objects, Obj.id)
    /\ idx' = Len(objects_list) + 1
    /\ pc' = "loop"
    /\ UNCHANGED <<endpoint, objects_list, objects_without_events>>
ObjectFailedAlsoEmpty(msgs) ==
    /\ log' = log \o msgs \o <<MsgO(229, endpoint, Obj.id)>>
    /\ failed_endpoints' = Append(failed_endpoints, endpoint)
    /\ failed_objects' = Append(failed_objects, Obj.id)
    /\ objects_without_events' = Append(objects_without_events, Obj.id)
    /\ idx' = idx + 1
    /\ pc' = "loop"
    /\ UNCHANGED <<endpoint, objects_list>>
ObjectFailed(msgs) ==
    /\ log' = log \o msgs \o <<MsgO(229, endpoint, Obj.id)>>
    /\ failed_endpoints' = Append(failed_endpoints, endpoint)
    /\ failed_objects' = Append(failed_objects, Obj.id)
    /\ idx' = idx + 1
    /\ pc' = "loop"
    /\ UNCHANGED <<endpoint, objects_list, objects_without_events>>

(***************************************************************************)
(* fetch_events, lines 92-116: one step per fetch request                  *)
(***************************************************************************)
\* Line 108: the response is the last one.
FetchDoneOnShortPage(data) == Len(data.events) < FetchLimit
FetchDone(data) == ~Truthy(data.cursor)

\* The request fails (lines 110-112): the events received so far go with the
\* frame of fetch_events.
FetchFailsKeepsPartial ==
    /\ fetchReqs' = Append(fetchReqs, FetchParams(FetchLimit, cursor))
    /\ made' = Made("fetch")
    /\ fetched' = <<>>
    /\ log' = Append(log, MsgO(111, endpoint, Obj.id))
    /\ IF caller = "main"
       THEN /\ object_events' = fetched
            /\ IF fetched = <<>>
               THEN /\ objects_without_events' = Append(objects_without_events, Obj.id)
                    /\ idx' = idx + 1
                    /\ pc' = "loop"
               ELSE /\ pc' = "write"
                    /\ UNCHANGED <<objects_without_events, idx>>
            /\ UNCHANGED <<endpoint, objects_list, failed_endpoints, failed_objects>>
       ELSE /\ pc' = "raised"
            /\ UNCHANGED <<runVars, object_events>>
    /\ UNCHANGED <<envVars, listVars, cursor, responses, fsVars, exit_code,
                   ret, calls, runs>>
FetchFails ==
    /\ fetchReqs' = Append(fetchReqs, FetchParams(FetchLimit, cursor))
    /\ made' = Made("fetch")
    /\ fetched' = <<>>
    /\ IF caller = "main"
       THEN ObjectFailed(<<MsgO(111, endpoint, Obj.id)>>)
       ELSE /\ log' = Append(log, MsgO(111, endpoint, Obj.id))
            /\ pc' = "raised"
            /\ UNCHANGED runVars
    /\ UNCHANGED <<envVars, listVars, cursor, responses, fsVars, object_events,
                   exit_code, ret, calls, runs>>

\* Line 224 of download_data: `if not object_events`.
NoEventsNever(events) == FALSE
NoEvents(events) == events = <<>>

\* The request returns a response (lines 104-109, 116). Called from
\* download_data, an empty result is recorded (lines 224-226).
FetchResponds(data) ==
    /\ fetchReqs' = Append(fetchReqs, FetchParams(FetchLimit, cursor))
    /\ responses' = Append(responses, data)
    /\ made' = Made("fetch")
    /\ cursor' = data.cursor
    /\ IF FetchDone(data)
       THEN /\ fetched' = <<>>
            /\ IF caller = "main"
               THEN /\ object_events' = fetched \o data.events
                    /\ ret' = ret
                    /\ IF NoEvents(object_events')
                       THEN /\ objects_without_events' =
                                   Append(objects_without_events, Obj.id)
                            /\ idx' = idx + 1
                            /\ pc' = "loop"
                       ELSE /\ pc' = "write"
                            /\ UNCHANGED <<objects_without_events, idx>>
               ELSE /\ ret' = fetched \o data.events
                    /\ pc' = "returned"
                    /\ UNCHANGED <<object_events, objects_without_events, idx>>
       ELSE /\ fetched' = fetched \o data.events
            /\ pc' = "fetch"
            /\ UNCHANGED <<object_events, ret, objects_without_events, idx>>
    /\ UNCHANGED <<envVars, listVars, endpoint, objects_list, failed_endpoints,
                   failed_objects, fsVars, log, exit_code, calls, runs>>

\* The API answers with the next events of the object's stream and a cursor,
\* as the fate of the object allows, in at most MaxFetchPages responses.
FetchRequest ==
    /\ pc = "fetch"
    /\ LET got == Len(Concat([i \in 1..Len(responses) |-> responses[i].events]))
           n == Len(responses) + 1
       IN \/ Fate = "fetch_fail" /\ FetchFails
          \/ \E j \in 0..Min(FetchLimit, MaxEvents - got), c \in Cursors(n) :
                /\ Fate = "empty" => j = 0
                /\ Fate = "fetch_fail" => Truthy(c)
                /\ Fate \in {"ok", "write_fail"} /\ ~Truthy(c) => got + j >= 1
                /\ Truthy(c) => n < MaxFetchPages
                /\ FetchResponds([events |-> EventPage(got, j), cursor |-> c])

(***************************************************************************)
(* write_to_csv, lines 170-193                                             *)
(***************************************************************************)
WriteOutcomes == {"mkdir_root", "mkdir_sub", "open", "write", "ok"}

\* os.makedirs of lines 171-172.
MakeDirs(have, directory) == have \cup {<<RootDir>>, <<RootDir, directory>>}

\* What the events hold when write_to_csv is left: line 178 has run unless
\* the directories could not be made or the list is empty.
EventsAfterWrite(events, outcome) ==
    IF outcome \in {"mkdir_root", "mkdir_sub"} THEN events ELSE NormalizeAll(events)

\* The call write_to_csv(object_events, endpoint, obj['id']) with one of its
\* outcomes. A failure of makedirs reaches the handler of line 188, whose
\* message reads `filename` before line 177 has set it: the handler raises
\* and logs nothing.
WriteCall(outcome) ==
    LET id == Obj.id
        path == CsvPath(endpoint, id)
        raised == outcome # "ok"
        msgs == IF outcome \in {"open", "write"} THEN <<MsgO(189, endpoint, id)>>
                ELSE IF outcome = "ok" /\ object_events = <<>> THEN <<MsgO(174, endpoint, id)>>
                ELSE <<>>
    IN /\ made' = Made("write")
       /\ dirs' = CASE outcome = "mkdir_root" -> dirs
                    [] outcome = "mkdir_sub" -> dirs \cup {<<RootDir>>}
                    [] OTHER -> MakeDirs(dirs, endpoint)
       /\ object_events' = EventsAfterWrite(object_events, outcome)
       /\ files' = CASE outcome = "write" -> (path :> PartialFile) @@ files
                     [] outcome = "ok" /\ object_events # <<>> ->
                            (path :> CsvTable(NormalizeAll(object_events))) @@ files
                     [] OTHER -> files
       /\ IF caller = "main"
          THEN /\ ret' = ret
               /\ IF raised
                  THEN ObjectFailed(msgs)
                  ELSE /\ log' = log \o msgs
                       /\ idx' = idx + 1
                       /\ pc' = "loop"
                       /\ UNCHANGED <<endpoint, objects_list, failed_endpoints,
                                      failed_objects, objects_without_events>>
          ELSE /\ log' = log \o msgs
               /\ ret' = Null
               /\ pc' = IF raised THEN "raised" ELSE "returned"
               /\ UNCHANGED runVars
       /\ UNCHANGED <<envVars, listVars, fetchVars, exit_code, calls, runs>>

\* In a run of main the fate of the object decides whether the write fails.
WriteToCsv ==
    /\ pc = "write"
    /\ \E outcome \in WriteOutcomes :
          /\ caller = "main" /\ Fate = "ok" => outcome = "ok"
          /\ caller = "main" /\ Fate = "write_fail" => outcome # "ok"
          /\ object_events = <<>> => outcome \in {"mkdir_root", "mkdir_sub", "ok"}
          /\ WriteCall(outcome)

(***************************************************************************)
(* download_data, lines 234-245, and the rest of main                      *)
(***************************************************************************)
\* The messages of lines 234-238 and 244-245.
SummaryWithIds(ep, objs, without, failed_eps, failed_ids) ==
    <<MsgE(234, ep), MsgN(235, Len(objs)), MsgN(236, Len(without))>>
    \o (IF without # <<>> THEN <<MsgIds(238, without)>> ELSE <<>>)
    \o (IF failed_eps # <<>> THEN <<MsgIds(245, failed_ids)>> ELSE <<>>)
SummaryMessages(ep, objs, without, failed_eps, failed_ids) ==
    <<MsgE(234, ep), MsgN(235, Len(objs)), MsgN(236, Len(without))>>
    \o (IF without # <<>> THEN <<MsgIds(238, without)>> ELSE <<>>)
    \o (IF failed_eps # <<>> THEN <<MsgEndpoints(245, failed_eps)>> ELSE <<>>)

\* Lines 280-283: main ends without sys.exit, whatever failed per object.
FinalExitCodeStrict == IF failed_objects = <<>> THEN <<0>> ELSE <<1>>
FinalExitCode == <<0>>

\* The loop is over: the summary is logged and download_data returns to main,
\* which starts the "dataset" run (line 279) or ends (line 280).
Summary ==
    /\ pc = "summary"
    /\ LET msgs == SummaryMessages(endpoint, objects_list, objects_without_events,
                                   failed_endpoints, failed_objects)
       IN /\ runs' = (endpoint :> [objects |-> objects_list,
                                   without_events |-> objects_without_events,
                                   failed |-> failed_objects,
                                   summary |-> msgs]) @@ runs
          /\ IF endpoint = "experiment"
             THEN /\ log' = log \o msgs
                  /\ EnterDownload("dataset")
                  /\ UNCHANGED exit_code
             ELSE /\ log' = log \o msgs \o <<Msg(280)>>
                  /\ exit_code' = FinalExitCode
                  /\ pc' = "exit"
                  /\ UNCHANGED <<listVars, runVars>>
    /\ UNCHANGED <<envVars, fetchVars, fsVars, object_events, ret, calls, made>>

(***************************************************************************)
(* normalize_event called directly on an event                             *)
(***************************************************************************)
\* The call works on the dict it is given and returns that dict.
NormalizeCall ==
    /\ pc = "call"
    /\ calls < MaxCalls
    /\ ret' = normalize_event(object_events[1])
    /\ object_events' = [object_events EXCEPT ![1] = normalize_event(@)]
    /\ calls' = calls + 1
    /\ UNCHANGED <<envVars, pc, listVars, runVars, fetchVars, fsVars, log,
                   exit_code, made, runs>>

(***************************************************************************)
(* Inputs                                                                  *)
(***************************************************************************)
\* The project filter: the command line requires exactly one of the two
\* (lines 290-292); a direct call may give neither.
Projects == {[project_id |-> Str("p1"), project_name |-> Null],
             [project_id |-> Null, project_name |-> Str("n1")]}
NoProject == [project_id |-> Null, project_name |-> Null]

\* Line 220: download_data gives fetch_object_list neither `limit` nor
\* `starting_after`, which take their defaults.
DefaultArgs == [limit |-> ListLimit, starting_after |-> Null]

SeqsUpTo(S, n) == UNION {[1..k -> S] : k \in 0..n}

\* The collections of a run of main: at most MaxRunObjects objects in all.
RunStores ==
    {[experiment |-> a, dataset |-> b] :
        a \in SeqsUpTo(Fates, MaxRunObjects), b \in SeqsUpTo(Fates, MaxRunObjects)}

\* JSON values nested to depth d.
Scalars == {Null, Num(1), Str("a")}
SubKeys == {"input", "output", "k"}
RECURSIVE ValuesAt(_)
ValuesAt(d) ==
    IF d = 0 THEN Scalars
    ELSE LET sub == ValuesAt(d - 1)
         IN Scalars
            \cup {List(<<>>), Dict(<<>>)}
            \cup {List(<<v>>) : v \in sub}
            \cup {Dict(<< <<k, v>> >>) : k \in SubKeys, v \in sub}
            \cup {Dict(<< <<"input", v>>, <<"metadata", w>> >>) : v \in sub, w \in Scalars}

\* The `input` mapping of the example: every promoted key, one of them nested.
FullInput == Dict(<< <<"input", Str("a")>>, <<"output", Str("b")>>,
                     <<"expected", Str("c")>>,
                     <<"metadata", Dict(<< <<"k", Num(1)>> >>)>> >>)

Absent == [t |-> "absent"]
Opt(S) == S \cup {Absent}

\* An event with an id and the fields given, a field left out when Absent.
EventOf(i, o, m) ==
    LET val == [input |-> i, output |-> o, metadata |-> m, id |-> Num(1)]
    IN [k \in {f \in DOMAIN val : val[f] # Absent} |-> val[k]]

\* The events normalize_event is called on directly.
EventPool ==
    {EventOf(i, o, m) :
        i \in Opt(ValuesAt(MaxDepth) \cup {FullInput}),
        o \in Opt({Str("o"), List(<<Num(1), Str("x")>>)}),
        m \in Opt({Dict(<< <<"k", Num(1)>> >>)})}

\* The batches write_to_csv is called on directly.
BatchPool == {Event(1), Event(2), [id |-> Num(3)],
              [output |-> Null, metadata |-> Dict(<< <<"k", Num(1)>> >>)]}
Batches == SeqsUpTo(BatchPool, MaxBatch)

ListIdle ==
    /\ params = <<>> /\ all_objects = <<>> /\ listReqs = <<>> /\ listPages = <<>>
RunIdle ==
    /\ objects_list = <<>> /\ idx = 0
    /\ failed_endpoints = <<>> /\ failed_objects = <<>>
    /\ objects_without_events = <<>>
FetchIdle ==
    /\ fetched = <<>> /\ cursor = Null /\ fetchReqs = <<>> /\ responses = <<>>
NothingOut ==
    /\ log = <<>> /\ exit_code = <<>> /\ ret = Null /\ calls = 0
    /\ made = NothingMade /\ runs = <<>>
NoFiles == dirs = {} /\ files = <<>>

\* One object, the object a direct call of fetch_events or write_to_csv is for.
OneObject ==
    /\ endpoint \in Endpoints
    /\ objects_list = <<[id |-> IdOf(1)]>> /\ idx = 1
    /\ failed_endpoints = <<>> /\ failed_objects = <<>>
    /\ objects_without_events = <<>>

(***************************************************************************)
(* Spec: a run of main                                                     *)
(***************************************************************************)
Init ==
    /\ caller = "main" /\ pc = "main"
    /\ credential \in BOOLEAN
    /\ project \in Projects
    /\ store \in RunStores
    /\ Len(store.experiment) + Len(store.dataset) <= MaxRunObjects
    /\ given = DefaultArgs
    /\ endpoint = "experiment"
    /\ ListIdle /\ RunIdle /\ FetchIdle /\ NoFiles /\ NothingOut
    /\ object_events = <<>>

Next == Main \/ ListRequest \/ NextObject \/ FetchRequest \/ WriteToCsv \/ Summary

Spec == Init /\ [][Next]_vars

(***************************************************************************)
(* SpecList: fetch_object_list called directly                             *)
(***************************************************************************)
InitList ==
    /\ caller = "fetch_object_list" /\ pc = "list"
    /\ credential = TRUE
    /\ project \in Projects \cup {NoProject}
    /\ \E n \in 0..MaxObjects :
          /\ store = [experiment |-> [i \in 1..n |-> "ok"], dataset |-> <<>>]
          /\ \E limit \in 1..ListLimit, starting_after \in {Null} \cup {IdOf(i) : i \in 1..n} :
                /\ given = [limit |-> limit, starting_after |-> starting_after]
                /\ params = FirstParams(limit, starting_after,
                                        project.project_id, project.project_name)
    /\ endpoint = "experiment"
    /\ all_objects = <<>> /\ listReqs = <<>> /\ listPages = <<>>
    /\ RunIdle /\ FetchIdle /\ NoFiles /\ NothingOut
    /\ object_events = <<>>

NextList == ListRequest

SpecList == InitList /\ [][NextList]_vars

(***************************************************************************)
(* SpecListFull: fetch_object_list called directly, against an API that    *)
(* never fails and never answers with less than it has. The loop of lines  *)
(* 49-64 makes its next request as soon as it has handled a page.          *)
(***************************************************************************)
NextListFull == ListRequestFull

SpecListFull == InitList /\ [][NextListFull]_vars /\ WF_vars(NextListFull)

(***************************************************************************)
(* SpecFetch: fetch_events called directly for one object                  *)
(***************************************************************************)
InitFetch ==
    /\ caller = "fetch_events" /\ pc = "fetch"
    /\ credential = TRUE
    /\ project = NoProject
    /\ \E fate \in Fates : store = [e \in Endpoints |-> <<fate>>]
    /\ given = DefaultArgs
    /\ OneObject
    /\ ListIdle /\ FetchIdle /\ NoFiles /\ NothingOut
    /\ object_events = <<>>

NextFetch == FetchRequest

SpecFetch == InitFetch /\ [][NextFetch]_vars

(***************************************************************************)
(* SpecEvents: normalize_event and write_to_csv called directly            *)
(***************************************************************************)
InitEvents ==
    /\ credential = TRUE
    /\ project = NoProject
    /\ store = [e \in Endpoints |-> <<"ok">>]
    /\ given = DefaultArgs
    /\ OneObject
    /\ endpoint = "experiment"
    /\ ListIdle /\ NothingOut
    /\ fetched = <<>> /\ cursor = Null /\ fetchReqs = <<>>
    /\ \/ /\ caller = "normalize_event" /\ pc = "call"
          /\ object_events \in {<<e>> : e \in EventPool}
          /\ NoFiles
       \/ /\ caller = "write_to_csv" /\ pc = "write"
          /\ object_events \in Batches
          /\ \/ NoFiles
             \/ dirs = {<<RootDir>>} /\ files = <<>>
             \/ dirs = MakeDirs({}, "experiment") /\ files = <<>>
             \/ /\ dirs = MakeDirs({}, "experiment")
                /\ files = (CsvPath("experiment", IdOf(1)) :> OldFile)
    \* the events as the caller holds them before the call
    /\ responses = <<[events |-> object_events, cursor |-> Null]>>

NextEvents == NormalizeCall \/ WriteToCsv

SpecEvents == InitEvents /\ [][NextEvents]_vars

(***************************************************************************)
(* Properties                                                              *)
(***************************************************************************)
Full(page) == Len(page) = params["limit"]
InLog(m) == \E i \in 1..Len(log) : log[i] = m
ListFailed(ep) == InLog(MsgE(66, ep))
EventsOf(rs) == Concat([i \in 1..Len(rs) |-> rs[i].events])

\* C1: in fetch_object_list a further list request follows a page exactly
\* when the page holds `limit` items: while the listing goes on every page
\* received was full; it returns right after the first page with fewer items
\* (none included), and returns the pages received, concatenated in order.
C1_ListStopsAtFirstShortPage ==
    LET n == Len(listPages)
    IN /\ \A i \in 1..n : Len(listReqs) > i => Full(listPages[i])
       /\ pc \in {"list", "raised"} =>
             /\ \A i \in 1..n : Full(listPages[i])
             /\ all_objects = Concat(listPages)
       /\ pc = "list" => Len(listReqs) = n
       /\ pc = "raised" => Len(listReqs) = n + 1
       /\ pc = "returned" =>
             /\ n >= 1
             /\ Len(listReqs) = n
             /\ ~Full(listPages[n])
             /\ ret = Concat(listPages)

\* A listing that returned after two full pages and an empty one.
C1_Witness ==
    /\ pc = "returned"
    /\ Len(listPages) = 3
    /\ Len(listPages[1]) = ListLimit
    /\ listPages[3] = <<>>
    /\ Len(ret) = 2 * ListLimit

\* C2: in fetch_events a further fetch request follows a response exactly
\* when the response carries a non-empty cursor, whatever the size of its
\* page; the fetch returns right after the first response without one, and
\* returns the events of all responses, concatenated in order.
C2_FetchStopsAtFirstEmptyCursor ==
    LET n == Len(responses)
    IN /\ \A i \in 1..n : Len(fetchReqs) > i => Truthy(responses[i].cursor)
       /\ pc \in {"fetch", "raised"} =>
             /\ \A i \in 1..n : Truthy(responses[i].cursor)
             /\ fetched = EventsOf(responses) \/ pc = "raised"
       /\ pc = "fetch" => Len(fetchReqs) = n
       /\ pc = "raised" => Len(fetchReqs) = n + 1
       /\ pc = "returned" =>
             /\ n >= 1
             /\ Len(fetchReqs) = n
             /\ ~Truthy(responses[n].cursor)
             /\ ret = EventsOf(responses)

\* A fetch that went on after an empty page with a cursor, then after a
\* full page with a cursor, and ended at a full page with an empty cursor.
C2_Witness ==
    /\ pc = "returned"
    /\ Len(responses) = 3
    /\ responses[1].events = <<>>
    /\ Len(responses[2].events) = FetchLimit
    /\ Len(responses[3].events) = FetchLimit
    /\ responses[3].cursor = Str("")
    /\ Len(ret) = 2 * FetchLimit

InSeq(x, xs) == \E i \in 1..Len(xs) : xs[i] = x
FateOf(ep, id) == store[ep][PosOf(id)]
ListingSucceeded(ep) == made[ep].list /\ ~ListFailed(ep)
Written(ep, id) ==
    /\ CsvPath(ep, id) \in DOMAIN files
    /\ files[CsvPath(ep, id)].complete
    /\ Len(files[CsvPath(ep, id)].rows) >= 1

\* C3: once the listing of an endpoint kind has succeeded, its run is
\* completed whatever fails per object: every listed object whose fetch or
\* write fails is in the failure set, and every listed object whose fetch
\* gives events and whose write succeeds has its table written, before or
\* after a failed object in the list.
C3_FaultIsolation ==
    pc = "exit" =>
        \A ep \in Endpoints :
            ListingSucceeded(ep) =>
                /\ ep \in DOMAIN runs
                /\ \A i \in 1..Len(runs[ep].objects) :
                      LET id == runs[ep].objects[i].id
                      IN /\ FateOf(ep, id) \in {"fetch_fail", "write_fail"} =>
                                InSeq(id, runs[ep].failed)
                         /\ FateOf(ep, id) = "ok" => Written(ep, id)

\* A finished run whose first object failed to fetch and whose second
\* object has its table.
C3_Witness ==
    /\ pc = "exit"
    /\ store["experiment"] = <<"fetch_fail", "ok">>
    /\ "experiment" \in DOMAIN runs
    /\ Len(runs["experiment"].objects) = 2
    /\ runs["experiment"].failed = <<IdOf(1)>>
    /\ Written("experiment", IdOf(2))

\* C4: an object whose fetch succeeds with no event never has a file, and a
\* finished run that listed it has it in the "no events" list and not in
\* the failure set.
C4_ZeroEventObject ==
    \A ep \in Endpoints : \A k \in 1..Len(store[ep]) :
        store[ep][k] = "empty" =>
            /\ CsvPath(ep, IdOf(k)) \notin DOMAIN files
            /\ (ep \in DOMAIN runs /\ InSeq([id |-> IdOf(k)], runs[ep].objects)) =>
                  /\ InSeq(IdOf(k), runs[ep].without_events)
                  /\ ~InSeq(IdOf(k), runs[ep].failed)

\* A finished run with a zero-event object recorded and no file for it.
C4_Witness ==
    /\ pc = "exit"
    /\ store["experiment"] = <<"empty", "ok">>
    /\ "experiment" \in DOMAIN runs
    /\ runs["experiment"].without_events = <<IdOf(1)>>
    /\ runs["experiment"].failed = <<>>
    /\ DOMAIN files = {CsvPath("experiment", IdOf(2))}

\* C5: when a list request of an endpoint kind fails, on the first page or a
\* later one, the failed request is the last one (no retry), no object is
\* returned, download_data fails and main exits with 1, and no fetch
\* request and no write is made for that endpoint kind.
C5_ListFailureIsFatal ==
    \A ep \in Endpoints :
        ListFailed(ep) =>
            /\ pc = "exit" /\ exit_code = <<1>>
            /\ endpoint = ep
            /\ Len(listReqs) = Len(listPages) + 1
            /\ objects_list = <<>>
            /\ InLog(MsgE(241, ep))
            /\ ep \notin DOMAIN runs
            /\ ~made[ep].fetch /\ ~made[ep].write
            /\ \A path \in DOMAIN files : path[1] # ep

\* A listing that failed on its second request, after a full first page.
C5_Witness ==
    /\ ListFailed("dataset")
    /\ Len(listPages) = 1
    /\ Len(all_objects) = ListLimit
    /\ Len(listReqs) = 2

\* C6: the summary of a finished run holds the count of objects processed,
\* the count of zero-event objects and their ids, and, when an object
\* failed, the list of the ids of the failed objects.
C6_SummaryListsFailedIds ==
    \A ep \in DOMAIN runs :
        LET r == runs[ep]
        IN /\ InSeq(MsgN(235, Len(r.objects)), r.summary)
           /\ InSeq(MsgN(236, Len(r.without_events)), r.summary)
           /\ r.without_events # <<>> => InSeq(MsgIds(238, r.without_events), r.summary)
           /\ r.failed # <<>> =>
                 \E i \in 1..Len(r.summary) :
                     /\ "ids" \in DOMAIN r.summary[i]
                     /\ r.summary[i].line # 238
                     /\ r.summary[i].ids = r.failed

\* C7: main ends with exit code 1 exactly when the credential is missing or
\* a listing fails; otherwise both download_data runs return normally and
\* main ends with exit code 0, however many objects failed.
C7_ExitCode ==
    LET listFailed == \E ep \in Endpoints : ListFailed(ep)
    IN /\ pc # "exit" => exit_code = <<>>
       /\ pc = "exit" =>
             /\ exit_code = IF ~credential \/ listFailed THEN <<1>> ELSE <<0>>
             /\ (credential /\ ~listFailed) =>
                   /\ DOMAIN runs = Endpoints
                   /\ InLog(Msg(280))

\* A run that ended with exit code 0 although an object failed in each
\* endpoint kind.
C7_Witness ==
    /\ pc = "exit"
    /\ exit_code = <<0>>
    /\ DOMAIN runs = Endpoints
    /\ runs["experiment"].failed # <<>>
    /\ runs["dataset"].failed # <<>>

\* The events as the caller of normalize_event or write_to_csv passed them.
Raw == responses[1].events
\* A value as a normalized record holds it.
Flat(v) == IF IsNested(v) THEN Str(json_dumps(v)) ELSE v

\* C8: when `input` of the event is a mapping M, the result's input, output,
\* expected and metadata are M's same-named values (serialized when nested,
\* null when M lacks them) in place of what the event held under these
\* names, and the mapping itself is not kept; otherwise no field is added
\* and none promoted. Every other field keeps its (serialized) value.
C8_Promotion ==
    (caller = "normalize_event" /\ calls = 1) =>
        LET e == Raw[1]
        IN IF IsDict(EventGet(e, "input"))
           THEN /\ DOMAIN ret = (DOMAIN e) \cup PromotedKeys
                /\ \A k \in PromotedKeys : ret[k] = Flat(PairsGet(e["input"].kv, k))
                /\ \A k \in (DOMAIN e) \ PromotedKeys : ret[k] = Flat(e[k])
                /\ ret["input"] # Flat(e["input"])
           ELSE /\ DOMAIN ret = DOMAIN e
                /\ \A k \in DOMAIN e : ret[k] = Flat(e[k])

\* An event whose `input` mapping holds only a nested `input`, beside a
\* top-level `output`: the nested mapping is serialized, not expanded, and
\* the top-level `output` is replaced by null.
C8_Witness ==
    /\ caller = "normalize_event" /\ calls = 1
    /\ Raw[1] = EventOf(Dict(<< <<"input", Dict(<< <<"output", Str("a")>> >>)>> >>),
                        Str("o"), Absent)
    /\ ret["input"] = Str("{\"output\": \"a\"}")
    /\ ret["output"] = Null
    /\ ret["expected"] = Null
    /\ ret["metadata"] = Null

\* C9: every value of the record normalize_event returns is a scalar or a
\* string, the promoted fields included.
C9_ValuesAreScalars ==
    (caller = "normalize_event" /\ calls >= 1) =>
        \A k \in DOMAIN ret : IsScalar(ret[k])

\* An event with a sequence at top level and a mapping among the promoted
\* values: both are strings in the result.
C9_Witness ==
    /\ caller = "normalize_event" /\ calls = 1
    /\ Raw[1] = [id |-> Num(1), input |-> FullInput,
                 output |-> List(<<Num(1), Str("x")>>)]
    /\ ret["metadata"] = Str("{\"k\": 1}")
    /\ ret["output"] = Str("b")

\* C10: normalize_event leaves the event passed to it unchanged, and after
\* write_to_csv the caller's list holds the events as they were passed.
C10_EventsLeftUnchanged ==
    caller \in {"normalize_event", "write_to_csv"} => object_events = Raw

\* C11: a second application of normalize_event to the event it returned
\* promotes nothing and changes no value: the result, and the event itself,
\* are what the first application left.
C11_Idempotent ==
    [][(caller = "normalize_event" /\ calls >= 1 /\ calls' = calls + 1) =>
           (ret' = ret /\ object_events' = object_events)]_vars

\* An event whose `input` mapping holds a nested `input` mapping, after two
\* applications: the nested mapping is the text the first one made of it.
C11_Witness ==
    /\ caller = "normalize_event" /\ calls = 2
    /\ Raw[1] = EventOf(Dict(<< <<"input", Dict(<< <<"output", Str("a")>> >>)>> >>),
                        Str("o"), Absent)
    /\ ret["input"] = Str("{\"output\": \"a\"}")
    /\ ret["output"] = Null
    /\ object_events[1] = ret

AllScalar(event) == \A k \in DOMAIN event : IsScalar(event[k])

\* C12: an event whose top-level values are all scalars or strings, with a
\* scalar `input` or none, normalizes to itself: the same fields with the
\* same values, none added and none removed.
C12_ScalarEventUnchanged ==
    (caller = "normalize_event" /\ calls >= 1 /\ AllScalar(Raw[1])) =>
        /\ DOMAIN ret = DOMAIN Raw[1]
        /\ \A k \in DOMAIN ret : ret[k] = Raw[1][k]
        /\ object_events[1] = Raw[1]

\* An event with an id and a string `output` and no `input`, normalized.
C12_Witness ==
    /\ caller = "normalize_event" /\ calls = 1
    /\ Raw[1] = EventOf(Absent, Str("o"), Absent)
    /\ ret = [id |-> Num(1), output |-> Str("o")]

\* The place of a field name in lexicographic order.
Rank(k) == CHOOSE n \in 1..Len(FieldOrder) : FieldOrder[n] = k
\* The text of a scalar in a cell: nothing for null.
Shown(v) == IF v.t = "null" THEN "" ELSE IF v.t = "num" THEN ToString(v.n) ELSE v.s
\* The path of the table of the object of a direct call of write_to_csv.
OwnPath == CsvPath(endpoint, objects_list[1].id)

\* C13: for a non-empty batch, the table write_to_csv leaves when it returns
\* has as header the field names of all normalized records of the batch,
\* each once, in lexicographic order, and one row per record in the order of
\* the batch; a row holds the record's value in each column the record has
\* and an empty cell in each header column it lacks.
C13_HeaderAndRows ==
    (caller = "write_to_csv" /\ pc = "returned" /\ Raw # <<>>) =>
        LET recs == [i \in 1..Len(Raw) |-> normalize_event(Raw[i])]
            table == files[OwnPath]
            header == table.header
        IN /\ OwnPath \in DOMAIN files
           /\ table.complete
           /\ {header[c] : c \in 1..Len(header)} =
                  UNION {DOMAIN recs[i] : i \in 1..Len(recs)}
           /\ \A c, d \in 1..Len(header) : c < d => Rank(header[c]) < Rank(header[d])
           /\ Len(table.rows) = Len(recs)
           /\ \A i \in 1..Len(recs) :
                 /\ Len(table.rows[i]) = Len(header)
                 /\ \A c \in 1..Len(header) :
                       table.rows[i][c] =
                           IF header[c] \in DOMAIN recs[i]
                           THEN Shown(recs[i][header[c]]) ELSE ""

\* A batch of two records with no field in common: the header is the three
\* names in order, each row empty where its record has no field.
C13_Witness ==
    /\ caller = "write_to_csv" /\ pc = "returned"
    /\ Raw = <<[output |-> Null, metadata |-> Dict(<< <<"k", Num(1)>> >>)],
               [id |-> Num(3)]>>
    /\ OwnPath \in DOMAIN files
    /\ files[OwnPath].header = <<"id", "metadata", "output">>
    /\ files[OwnPath].rows = << <<"", "{\"k\": 1}", "">>, <<"3", "", "">> >>

\* C14: write_to_csv called with an empty list returns normally and leaves
\* the filesystem as it was, creating no file and no directory, whatever
\* directories and files exist.
C14_EmptyWriteIsNoOp ==
    [][(caller = "write_to_csv" /\ pc = "write" /\ object_events = <<>>) =>
           (pc' = "returned" /\ dirs' = dirs /\ files' = files)]_vars

\* Whether a request carries the parameter with the value given, or lacks it
\* when none is given.
Carries(req, name, value) ==
    IF Truthy(value) THEN name \in DOMAIN req /\ req[name] = value
    ELSE name \notin DOMAIN req

\* C15: of the list requests of a fetch_object_list call, the first carries
\* `starting_after` only as the caller gave it (none when none was given),
\* every later one carries the id of the last item of the page before it,
\* and every one carries the `limit` and the project filter given, and
\* nothing else.
C15_ListRequestParams ==
    \A i \in 1..Len(listReqs) :
        LET req == listReqs[i]
        IN /\ DOMAIN req \subseteq {"limit", "starting_after", "project_id", "project_name"}
           /\ "limit" \in DOMAIN req /\ req["limit"] = given.limit
           /\ Carries(req, "project_id", project.project_id)
           /\ Carries(req, "project_name", project.project_name)
           /\ i = 1 => Carries(req, "starting_after", given.starting_after)
           /\ i > 1 =>
                 /\ listPages[i - 1] # <<>>
                 /\ "starting_after" \in DOMAIN req
                 /\ req["starting_after"] = listPages[i - 1][Len(listPages[i - 1])].id

\* A listing with a project id and no `starting_after` given, after its
\* third request: the second and third carry the ids that ended the pages.
C15_Witness ==
    /\ caller = "fetch_object_list" /\ pc = "returned"
    /\ given = [limit |-> 2, starting_after |-> Null]
    /\ project.project_id = Str("p1")
    /\ Len(listReqs) = 3
    /\ "starting_after" \notin DOMAIN listReqs[1]
    /\ listReqs[2]["starting_after"] = IdOf(2)
    /\ listReqs[3]["starting_after"] = IdOf(4)
    /\ listReqs[3]["project_id"] = Str("p1")

\* C16: of the fetch requests for an object, the first carries no cursor,
\* whatever cursor the fetch of the object before it ended with, and every
\* later one carries the cursor of the response before it; each carries the
\* `limit` and nothing else.
C16_FetchRequestParams ==
    /\ Len(fetchReqs) \in {Len(responses), Len(responses) + 1}
    /\ \A i \in 1..Len(fetchReqs) :
          LET req == fetchReqs[i]
          IN /\ DOMAIN req \subseteq {"limit", "cursor"}
             /\ req["limit"] = FetchLimit
             /\ i = 1 => "cursor" \notin DOMAIN req
             /\ i > 1 =>
                   /\ "cursor" \in DOMAIN req
                   /\ req["cursor"] = responses[i - 1].cursor
                   /\ Truthy(req["cursor"])

\* The second object of a run whose first object failed in its fetch: its
\* first request carries no cursor, its second the cursor of its own first
\* response.
C16_Witness ==
    /\ caller = "main" /\ idx = 2 /\ pc = "fetch"
    /\ InLog(MsgO(111, "experiment", IdOf(1)))
    /\ failed_objects = <<IdOf(1)>>
    /\ Len(fetchReqs) = 2 /\ Len(responses) = 2
    /\ "cursor" \notin DOMAIN fetchReqs[1]
    /\ fetchReqs[2]["cursor"] = responses[1].cursor

\* The failure list and the "no events" list of the run of an endpoint
\* kind, finished or in progress.
FailedIn(ep) ==
    IF ep \in DOMAIN runs THEN runs[ep].failed
    ELSE IF endpoint = ep THEN failed_objects ELSE <<>>
WithoutIn(ep) ==
    IF ep \in DOMAIN runs THEN runs[ep].without_events
    ELSE IF endpoint = ep THEN objects_without_events ELSE <<>>
FetchFailed(ep, id) == InLog(MsgO(111, ep, id))

\* C17: when a fetch request for an object fails, on its first page or a
\* later one, the events received for it are dropped, no file is written at
\* its path, the failure is logged with the endpoint and the id, and the
\* object is in the failure list and not in the "no events" list.
C17_FetchFailureDropsObject ==
    /\ \A ep \in Endpoints : \A k \in 1..Len(store[ep]) :
          FetchFailed(ep, IdOf(k)) =>
              /\ CsvPath(ep, IdOf(k)) \notin DOMAIN files
              /\ InLog(MsgO(229, ep, IdOf(k)))
              /\ InSeq(IdOf(k), FailedIn(ep))
              /\ ~InSeq(IdOf(k), WithoutIn(ep))
    /\ (caller = "main" /\ Len(fetchReqs) > Len(responses)) =>
          /\ pc = "loop"
          /\ fetched = <<>>
          /\ FetchFailed(endpoint, objects_list[idx - 1].id)

\* An object whose second fetch request failed after a first page with an
\* event: it is recorded as failed and nothing is written.
C17_Witness ==
    /\ caller = "main" /\ pc = "loop"
    /\ Len(responses) = 1 /\ Len(fetchReqs) = 2
    /\ responses[1].events # <<>>
    /\ failed_objects = <<IdOf(1)>>
    /\ objects_without_events = <<>>
    /\ files = <<>>

\* C18: against an API that holds N objects with increasing ids, answers
\* every request with the next min(limit, remaining) of them and never
\* fails, fetch_object_list raises nothing and returns, after exactly
\* floor(N / limit) + 1 requests, the N objects once each in the order of
\* the API: one request and an empty result for N = 0, a last request with
\* an empty page when N is a multiple of `limit`. (A listing started after
\* the k-th object counts the N - k objects that follow it.)
C18_ListingTerminatesComplete ==
    LET N == Len(store[endpoint]) - PosOf(given.starting_after)
    IN /\ [](pc # "raised" /\ log = <<>>)
       /\ [](pc = "returned" =>
               /\ Len(listReqs) = (N \div given.limit) + 1
               /\ ret = ObjectPage(PosOf(given.starting_after), N))
       /\ <>(pc = "returned")

\* A collection of twice `limit` objects listed from the start: two full
\* pages and a third request that returns the empty page.
C18_Witness ==
    /\ caller = "fetch_object_list" /\ pc = "returned"
    /\ given = [limit |-> 2, starting_after |-> Null]
    /\ Len(store[endpoint]) = 4
    /\ Len(listReqs) = 3
    /\ listPages = <<ObjectPage(0, 2), ObjectPage(2, 2), <<>> >>
    /\ ret = ObjectPage(0, 4)

\* Whether a file, complete or not, is at the path of the object.
FileAt(ep, id) == CsvPath(ep, id) \in DOMAIN files
NoRepeat(xs) == \A i, j \in 1..Len(xs) : xs[i] = xs[j] => i = j

\* The three outcomes of the objects of a finished run: every listed object
\* has its table written, or is in the "no events" list, or is in the
\* failure list, and only one of the three; the total logged is the sum of
\* the three counts. Nothing is at the path of an object of the "no events"
\* list; no table is at the path of an object of the failure list, where a
\* write that failed after the file was opened has left an incomplete file.
OutcomePartition(ep) ==
    LET r == runs[ep]
        ids == [i \in 1..Len(r.objects) |-> r.objects[i].id]
        written == {i \in 1..Len(ids) : Written(ep, ids[i])}
    IN /\ NoRepeat(ids) /\ NoRepeat(r.without_events) /\ NoRepeat(r.failed)
       /\ \A i \in 1..Len(ids) :
             /\ i \in written \/ InSeq(ids[i], r.without_events) \/ InSeq(ids[i], r.failed)
             /\ ~(i \in written /\ InSeq(ids[i], r.without_events))
             /\ ~(i \in written /\ InSeq(ids[i], r.failed))
             /\ ~(InSeq(ids[i], r.without_events) /\ InSeq(ids[i], r.failed))
             /\ InSeq(ids[i], r.without_events) => ~FileAt(ep, ids[i])
             /\ InSeq(ids[i], r.failed) => ~Written(ep, ids[i])
             /\ (InSeq(ids[i], r.failed) /\ FileAt(ep, ids[i])) =>
                   /\ ~files[CsvPath(ep, ids[i])].complete
                   /\ ~FetchFailed(ep, ids[i])
       /\ \A i \in 1..Len(r.without_events) : InSeq(r.without_events[i], ids)
       /\ \A i \in 1..Len(r.failed) : InSeq(r.failed[i], ids)
       /\ \E i \in 1..Len(r.summary) :
             /\ r.summary[i].line = 235
             /\ r.summary[i].n = Cardinality(written) + Len(r.without_events) + Len(r.failed)

\* C19: at the end of a download_data run whose listing succeeded every
\* listed object is in exactly one of the three outcomes (table written,
\* recorded as having no events, recorded as failed), the two lists share
\* no object, no table was written for an object of either list, and the
\* total logged is the sum of the three counts.
C19_OutcomePartition ==
    \A ep \in Endpoints :
        /\ (pc = "exit" /\ ListingSucceeded(ep)) => ep \in DOMAIN runs
        /\ ep \in DOMAIN runs => OutcomePartition(ep)

\* A finished run of two objects: the first failed in the write of its
\* rows, which left an incomplete file, the second has its table.
C19_Witness ==
    /\ pc = "exit"
    /\ "experiment" \in DOMAIN runs
    /\ Len(runs["experiment"].objects) = 2
    /\ runs["experiment"].failed = <<IdOf(1)>>
    /\ runs["experiment"].without_events = <<>>
    /\ FileAt("experiment", IdOf(1))
    /\ ~Written("experiment", IdOf(1))
    /\ Written("experiment", IdOf(2))

\* Whether a request or a write of the run of an endpoint kind was made, or
\* anything of it is on the filesystem.
Active(ep) ==
    \/ made[ep].list \/ made[ep].fetch \/ made[ep].write
    \/ <<RootDir, ep>> \in dirs
    \/ \E path \in DOMAIN files : path[1] = ep

\* C20: main runs the two endpoint kinds in order. While the "experiment"
\* run is in progress nothing of the "dataset" run has happened, and once
\* something of it has, the "experiment" run has ended with its summary;
\* when the "experiment" listing fails nothing of the "dataset" run ever
\* happens and the exit code is 1; when the credential is missing no
\* request and no write is made at all and the exit code is 1.
C20_EndpointKindsInOrder ==
    /\ endpoint = "experiment" => ~Active("dataset")
    /\ Active("dataset") =>
          /\ endpoint = "dataset"
          /\ "experiment" \in DOMAIN runs
          /\ InLog(MsgE(234, "experiment"))
    /\ ListFailed("experiment") =>
          /\ ~Active("dataset")
          /\ pc = "exit" /\ exit_code = <<1>>
    /\ ~credential =>
          /\ \A ep \in Endpoints : ~Active(ep)
          /\ dirs = {} /\ files = <<>>
          /\ pc \in {"main", "exit"}
          /\ pc = "exit" => exit_code = <<1>>

\* A run that ended at a failed "experiment" list request although the
\* API holds "dataset" objects: nothing was asked or written for them.
C20_Witness ==
    /\ pc = "exit" /\ exit_code = <<1>>
    /\ ListFailed("experiment")
    /\ store["dataset"] # <<>>
    /\ made["experiment"].list
    /\ ~Active("dataset")

====
